---- MODULE Spec2Model ----
(***************************************************************************)
(* Escape-time Mandelbrot kernels of the repository: the scalar reference  *)
(* (Mandelbrot.cpp), the AVX batch kernels (MBAVXReal.cpp,                 *)
(* MBThreadsAndAVX.cpp) and the row-partitioned thread driver with its     *)
(* SDL frame loop (MBThreadsAndAVX.cpp).                                   *)
(*                                                                         *)
(* Numbers of type double are modelled in a reduced binary format: a       *)
(* finite value is an integer count of 1/Unit steps (Unit a power of two), *)
(* every operation rounds its exact result to the nearest step, a result   *)
(* beyond MaxRaw steps overflows to an infinity, and infinities and NaN    *)
(* follow the IEEE-754 rules (inf - inf = NaN, ordered compares with NaN   *)
(* are false).                                                             *)
(***************************************************************************)
EXTENDS Integers, Sequences, FiniteSets, TLC

\* ------------------------------------------------------------ bounds
FracBits == 3        \* fractional bits of the reduced double format
RawBits == 14        \* finite doubles are at most 2^RawBits steps in magnitude
MaxIterArg == 3      \* largest max_iterations handed to a kernel on its own
MaxHeight == 3       \* largest SCREEN_HEIGHT drawn
MaxThreads == 3      \* largest THREAD_COUNT drawn
MaxOffset == 2       \* viewport offsets drawn for a batch: -MaxOffset/2 .. MaxOffset/2
MaxBatches == 2      \* SCREEN_WIDTH is drawn from 4, 8, .., 4 * MaxBatches
MaxEvents == 2       \* SDL events posted in one run
MaxStrLen == 3       \* longest str handed to MyPrinter
MaxCharCount == 4    \* largest char_count handed to MyPrinter
MaxPrinters == 3     \* largest thread_count handed to MyPrinter
MaxNextChar == 9     \* print_chars is followed while next_char + char_count stays within this

\* ------------------------------------------------------------ doubles
Pow2(n) == IF n <= 0 THEN 1 ELSE 2 ^ n
Unit == Pow2(FracBits)
MaxRaw == Pow2(RawBits)
PInf == MaxRaw + 1
NInf == 0 - (MaxRaw + 1)
NaN == MaxRaw + 2

IsNaN(x) == x = NaN
IsInf(x) == x = PInf \/ x = NInf
IsFinite(x) == (0 - MaxRaw) <= x /\ x <= MaxRaw
Sign(x) == IF x < 0 THEN 0 - 1 ELSE IF x > 0 THEN 1 ELSE 0
AbsInt(n) == IF n < 0 THEN 0 - n ELSE n

\* n / d for integers, d > 0, rounded to the nearest integer
RoundDiv(n, d) == Sign(n) * ((AbsInt(n) + (d \div 2)) \div d)
\* an exact result in steps, brought into the format
Overflow(r) == IF r > MaxRaw THEN PInf ELSE IF r < 0 - MaxRaw THEN NInf ELSE r

FromInt(n) == Overflow(n * Unit)
\* the literal num/den of the source, rounded to the format
Lit(num, den) == Overflow(RoundDiv(num * Unit, den))

Neg(a) == IF IsNaN(a) THEN NaN ELSE 0 - a
Add(a, b) ==
    IF IsFinite(a) /\ IsFinite(b) THEN Overflow(a + b)
    ELSE IF IsNaN(a) \/ IsNaN(b) THEN NaN
    ELSE IF IsInf(a) /\ IsInf(b) THEN (IF a = b THEN a ELSE NaN)
    ELSE IF IsInf(a) THEN a
    ELSE b
Sub(a, b) == Add(a, Neg(b))
Mul(a, b) ==
    IF IsFinite(a) /\ IsFinite(b) THEN Overflow(RoundDiv(a * b, Unit))
    ELSE IF IsNaN(a) \/ IsNaN(b) THEN NaN
    ELSE IF a = 0 \/ b = 0 THEN NaN
    ELSE IF Sign(a) * Sign(b) > 0 THEN PInf ELSE NInf
Div(a, b) ==
    IF IsNaN(a) \/ IsNaN(b) THEN NaN
    ELSE IF IsInf(a) /\ IsInf(b) THEN NaN
    ELSE IF IsInf(a) THEN (IF Sign(a) * Sign(b) >= 0 THEN PInf ELSE NInf)
    ELSE IF IsInf(b) THEN 0
    ELSE IF b = 0 THEN (IF a = 0 THEN NaN ELSE IF a > 0 THEN PInf ELSE NInf)
    ELSE Overflow(Sign(b) * RoundDiv(a * Unit, AbsInt(b)))
\* a < b, false when either is NaN (operator < on doubles, _CMP_LT_OQ)
Lt(a, b) == ~IsNaN(a) /\ ~IsNaN(b) /\ a < b
\* fused multiply-add: x*y + z with one rounding; z is a step count, so the
\* rounding of the sum is the rounding of the product
Fmadd(x, y, z) == Add(Mul(x, y), z)

Two == FromInt(2)
Four == FromInt(4)

\* ------------------------------------------------------------ lanes
Lanes == 0 .. 3
Set1(x) == [l \in Lanes |-> x]
\* _mm256_set_pd(e3, e2, e1, e0): the LAST argument is element 0
SetPd(e3, e2, e1, e0) ==
    [l \in Lanes |-> IF l = 0 THEN e0 ELSE IF l = 1 THEN e1 ELSE IF l = 2 THEN e2 ELSE e3]
MulPd(a, b) == [l \in Lanes |-> Mul(a[l], b[l])]
AddPd(a, b) == [l \in Lanes |-> Add(a[l], b[l])]
SubPd(a, b) == [l \in Lanes |-> Sub(a[l], b[l])]
FmaddPd(a, b, c) == [l \in Lanes |-> Fmadd(a[l], b[l], c[l])]
\* _mm256_cmp_pd(a, b, _CMP_LT_OQ): a lane is all ones (TRUE) or all zeros
CmpLtPd(a, b) == [l \in Lanes |-> Lt(a[l], b[l])]
\* _mm256_testz_si256(m, m): 1 iff every bit of m is zero
TestZ_AnyLane(m) == \E l \in Lanes : ~m[l]
TestZ(m) == \A l \in Lanes : ~m[l]
AddEpi64(a, b) == [l \in Lanes |-> a[l] + b[l]]

\* ------------------------------------------------------------ sample mapping
\* (col - SCREEN_WIDTH / 2.0) * 4.0 / (SCREEN_WIDTH * zoom) + offsetX
MapRe(col, width, zm, offX) ==
    Add(Div(Mul(Sub(FromInt(col), Div(FromInt(width), Two)), Four),
            Mul(FromInt(width), zm)), offX)
\* (row - SCREEN_HEIGHT / 2.0) * 4.0 / (SCREEN_HEIGHT * zoom) + offsetY
MapIm(row, height, zm, offY) ==
    Add(Div(Mul(Sub(FromInt(row), Div(FromInt(height), Two)), Four),
            Mul(FromInt(height), zm)), offY)
BatchCa(j, width, zm, offX) ==
    SetPd(MapRe(j + 3, width, zm, offX), MapRe(j + 2, width, zm, offX),
          MapRe(j + 1, width, zm, offX), MapRe(j + 0, width, zm, offX))
BatchCb(i, height, zm, offY) == Set1(MapIm(i, height, zm, offY))

\* ------------------------------------------------------------ state
VARIABLES
    SCREEN_WIDTH, SCREEN_HEIGHT, THREAD_COUNT,   \* the grid and the worker count
    \* one batch evaluation (the registers of mandelbrotAVX and its loop index)
    kpc, max_iterations, bi, bj, bzoom, boffX, boffY,
    _ca, _cb, _zr, _zi, _iter, _n, _mask2, k,
    \* the locked texture: its pitch in bytes and its 32-bit words
    bytesPerRow, pixels,
    \* main of MBThreadsAndAVX.cpp: its position, its locals, the SDL event queue
    pc, offsetX, offsetY, zoom, quit, events, posted,
    \* the vector `threads` of mandelbrotThreads and what each worker has done
    threads, writes, screen,
    \* printABCInThreads.cpp: the members of MyPrinter, the loop index of run,
    \* each thread's position, and how the build treats the wait loop
    str, char_count, thread_count, thread_ids, currently_allowed_thread, next_char,
    mtx, cv, rpc, ri, tpc, gate,
    \* history of the prints: the last line printed, the number of prints modulo
    \* thread_count, the number of characters printed modulo the length of str
    out, turn, win

cfgvars == <<SCREEN_WIDTH, SCREEN_HEIGHT, THREAD_COUNT>>
kvars == <<kpc, max_iterations, bi, bj, bzoom, boffX, boffY,
           _ca, _cb, _zr, _zi, _iter, _n, _mask2, k>>
texvars == <<bytesPerRow, pixels>>
mainvars == <<pc, offsetX, offsetY, zoom, quit, events, posted>>
thrvars == <<threads, writes, screen>>
prvars == <<str, char_count, thread_count, thread_ids, currently_allowed_thread, next_char,
            mtx, cv, rpc, ri, tpc, gate, out, turn, win>>
vars == <<cfgvars, kvars, texvars, mainvars, thrvars, prvars>>

Widths == {4 * b : b \in 1 .. MaxBatches}
Columns(width) == {4 * b : b \in 0 .. (width \div 4) - 1}
Offsets == {Lit(h, 2) : h \in (0 - MaxOffset) .. MaxOffset}
Zooms == {FromInt(1), FromInt(2)}
ZeroPd == Set1(0)
ZeroSi == Set1(0)
NoMask == Set1(FALSE)

\* the mutex m held by nobody; no line printed yet
Free == 0 - 1
NoOutput == <<>>
\* no MyPrinter has been constructed: the state of a run of another program
PrinterIdle ==
    /\ str = <<>> /\ char_count = 0 /\ thread_count = 0 /\ thread_ids = <<>>
    /\ currently_allowed_thread = 0 /\ next_char = 0
    /\ mtx = Free /\ cv = {} /\ rpc = "idle" /\ ri = 0 /\ tpc = <<>> /\ gate = "reload"
    /\ out = NoOutput /\ turn = 0 /\ win = 0

\* the iteration cap MAX_ITER (1000 in the program), scaled to the reduced doubles
MAX_ITER == 3

\* ------------------------------------------------------------ the texture
\* a pitch SDL_LockTexture may report for a row of width 32-bit pixels
Pitches(width) == {4 * width, 4 * width + 6}
\* a word of the buffer that this frame has not written
Stale == <<>>
BufferLen(height, pitch) == height * (pitch \div 4)
StaleBuffer(height, pitch) == [x \in 0 .. BufferLen(height, pitch) - 1 |-> Stale]
\* (r << 24) | (g << 16) | (b << 8) | 0xFF, kept as its four bytes
Pack(c) == <<c[1], c[2], c[3], 255>>

\* 127 * sin(2*pi*n/d) for 0 <= n/d <= 1/2, by Bhaskara's rational formula
\* sin(x) = 16x(pi-x) / (5pi^2 - 4x(pi-x)), as a pair numerator, denominator
HalfSine(n, d) == <<127 * 32 * n * (d - 2 * n), 5 * d * d - 8 * n * (d - 2 * n)>>
\* static_cast<uint8_t>(128.0 + 127.0 * sin(6.28318 * t + 2*pi*third/3)) with
\* t = iter / MAX_ITER: the phase in turns is a / b
Channel(iter, third) ==
    LET b == 3 * MAX_ITER
        a == (3 * iter + third * MAX_ITER) % b
        h == IF 2 * a <= b THEN HalfSine(2 * a, 2 * b) ELSE HalfSine(2 * a - b, 2 * b)
        num == IF 2 * a <= b THEN 128 * h[2] + h[1] ELSE 128 * h[2] - h[1]
    IN  num \div h[2]
\* Color getColor(int iter)
getColor(iter) ==
    IF iter = MAX_ITER THEN <<0, 0, 0>>
    ELSE <<Channel(iter, 0), Channel(iter, 1), Channel(iter, 2)>>

\* ------------------------------------------------------------ Mandelbrot.cpp
\* std::complex z * z + c
CSquareAddRe(zr, zi, cr) == Add(Sub(Mul(zr, zr), Mul(zi, zi)), cr)
CSquareAddIm(zr, zi, ci) == Add(Add(Mul(zr, zi), Mul(zi, zr)), ci)
\* std::abs(z) < 2.0: the magnitude is taken of the exact components
AbsLt2(zr, zi) ==
    /\ IsFinite(zr) /\ IsFinite(zi)
    /\ AbsInt(zr) < 2 * Unit /\ AbsInt(zi) < 2 * Unit
    /\ zr * zr + zi * zi < 4 * Unit * Unit
RECURSIVE mandelbrotFrom(_, _, _, _, _, _)
mandelbrotFrom(zr, zi, cr, ci, iterations, max_iter) ==
    IF AbsLt2(zr, zi) /\ iterations < max_iter
    THEN mandelbrotFrom(CSquareAddRe(zr, zi, cr), CSquareAddIm(zr, zi, ci),
                        cr, ci, iterations + 1, max_iter)
    ELSE iterations
mandelbrot(cr, ci, max_iter) == mandelbrotFrom(0, 0, cr, ci, 0, max_iter)

\* ------------------------------------------------------------ MBThreadsAndAVX.cpp, batch loop
AvxLoopCond_OneMore(kk, maxit) == kk <= maxit
\* for (int k = 0; k < max_iterations; ++k)
AvxLoopCond(kk, maxit) == kk < maxit
\* _zr2 + _zi2 < 4 per lane, as the integer mask _mask2
AvxMask(zr, zi) == CmpLtPd(AddPd(MulPd(zr, zr), MulPd(zi, zi)), Set1(Four))
\* _zi = 2 * (_zr * _zi) + _cb
AvxNextZi(zr, zi, cb) == AddPd(MulPd(Set1(Two), MulPd(zr, zi)), cb)
\* _zr = (_zr2 - _zi2) + _ca
AvxNextZr(zr, zi, ca) == AddPd(SubPd(MulPd(zr, zr), MulPd(zi, zi)), ca)
\* _iter = _iter + _one, in every lane
AvxNextIter(iter, mask) == AddEpi64(iter, Set1(1))

PixelIndex_NoPitch(i, col, pitch, width) == i * width + col
\* i * (bytesPerRow / 4) + j + k
PixelIndex(i, col, pitch, width) == i * (pitch \div 4) + col
\* lines 94-98: pixel j + kk takes element 3 - kk of _iter
WriteBatch(buf, i, j, pitch, width, iter) ==
    [buf EXCEPT ![PixelIndex(i, j + 0, pitch, width)] = Pack(getColor(iter[3 - 0])),
                ![PixelIndex(i, j + 1, pitch, width)] = Pack(getColor(iter[3 - 1])),
                ![PixelIndex(i, j + 2, pitch, width)] = Pack(getColor(iter[3 - 2])),
                ![PixelIndex(i, j + 3, pitch, width)] = Pack(getColor(iter[3 - 3]))]
\* the record of who stored the four pixels of a batch, and with which viewport
NoteBatch(log, i, j, pitch, width, entry) ==
    [log EXCEPT ![PixelIndex(i, j + 0, pitch, width)] = Append(@, entry),
                ![PixelIndex(i, j + 1, pitch, width)] = Append(@, entry),
                ![PixelIndex(i, j + 2, pitch, width)] = Append(@, entry),
                ![PixelIndex(i, j + 3, pitch, width)] = Append(@, entry)]

\* lines 68-77: the registers of a fresh batch
BatchBegin ==
    /\ kpc = "begin"
    /\ _iter' = Set1(0)
    /\ _ca' = BatchCa(bj, SCREEN_WIDTH, bzoom, boffX)
    /\ _cb' = BatchCb(bi, SCREEN_HEIGHT, bzoom, boffY)
    /\ _zr' = ZeroPd
    /\ _zi' = ZeroPd
    /\ k' = 0
    /\ kpc' = "loop"
    /\ UNCHANGED <<prvars, cfgvars, texvars, mainvars, thrvars, max_iterations, bi, bj, bzoom, boffX, boffY, _n, _mask2>>

\* lines 79-92: one pass of the loop that does not break
BatchStep ==
    /\ kpc = "loop"
    /\ AvxLoopCond(k, max_iterations)
    /\ ~TestZ(AvxMask(_zr, _zi))
    /\ _zi' = AvxNextZi(_zr, _zi, _cb)
    /\ _zr' = AvxNextZr(_zr, _zi, _ca)
    /\ _iter' = AvxNextIter(_iter, AvxMask(_zr, _zi))
    /\ k' = k + 1
    /\ UNCHANGED <<prvars, cfgvars, texvars, mainvars, thrvars, kpc, max_iterations, bi, bj, bzoom, boffX, boffY,
                   _ca, _cb, _n, _mask2>>

\* line 86: every lane has escaped
BatchBreak ==
    /\ kpc = "loop"
    /\ AvxLoopCond(k, max_iterations)
    /\ TestZ(AvxMask(_zr, _zi))
    /\ kpc' = "done"
    /\ UNCHANGED <<prvars, cfgvars, texvars, mainvars, thrvars, max_iterations, bi, bj, bzoom, boffX, boffY,
                   _ca, _cb, _zr, _zi, _iter, _n, _mask2, k>>

\* line 79: the loop condition fails
BatchCap ==
    /\ kpc = "loop"
    /\ ~AvxLoopCond(k, max_iterations)
    /\ kpc' = "done"
    /\ UNCHANGED <<prvars, cfgvars, texvars, mainvars, thrvars, max_iterations, bi, bj, bzoom, boffX, boffY,
                   _ca, _cb, _zr, _zi, _iter, _n, _mask2, k>>

\* lines 94-98: the four pixels of the batch are coloured and stored
BatchStore ==
    /\ kpc = "done"
    /\ pixels' = WriteBatch(pixels, bi, bj, bytesPerRow, SCREEN_WIDTH, _iter)
    /\ kpc' = "stored"
    /\ UNCHANGED <<prvars, cfgvars, mainvars, thrvars, bytesPerRow, max_iterations, bi, bj, bzoom, boffX, boffY,
                   _ca, _cb, _zr, _zi, _iter, _n, _mask2, k>>

\* main has not started: the state of a run of one kernel on its own
MainIdle ==
    /\ pc = "idle" /\ offsetX = 0 /\ offsetY = 0 /\ zoom = 0 /\ quit = FALSE
    /\ events = <<>> /\ posted = 0 /\ threads = <<>>
    /\ writes = [x \in DOMAIN pixels |-> <<>>]
    /\ screen = pixels

InitCfg ==
    /\ SCREEN_WIDTH \in Widths
    /\ SCREEN_HEIGHT \in 1 .. MaxHeight
    /\ THREAD_COUNT \in 1 .. MaxThreads

InitBatchInputs ==
    /\ max_iterations \in (0 - 1) .. MaxIterArg
    /\ bi \in 0 .. SCREEN_HEIGHT - 1
    /\ bj \in Columns(SCREEN_WIDTH)
    /\ bzoom \in Zooms
    /\ boffX \in Offsets
    /\ boffY \in Offsets

InitBatch ==
    /\ InitCfg
    /\ THREAD_COUNT = 1
    /\ InitBatchInputs
    /\ kpc = "begin"
    /\ _ca = ZeroPd /\ _cb = ZeroPd /\ _zr = ZeroPd /\ _zi = ZeroPd
    /\ _iter = ZeroSi /\ _n = ZeroSi /\ _mask2 = NoMask /\ k = 0
    /\ bytesPerRow = 4 * SCREEN_WIDTH
    /\ pixels = StaleBuffer(SCREEN_HEIGHT, bytesPerRow)
    /\ MainIdle
    /\ PrinterIdle

NextBatch == BatchBegin \/ BatchStep \/ BatchBreak \/ BatchCap \/ BatchStore
SpecBatch == InitBatch /\ [][NextBatch]_vars

\* ------------------------------------------------------------ claims on the batch loop
NormGt4(cr, ci) == IsFinite(cr) /\ IsFinite(ci) /\ cr * cr + ci * ci > 4 * Unit * Unit

\* C3: when the batch loop has ended, each lane's count is the count of the
\* scalar reference loop (|z| < 2 and iter < maxIter) for that lane's c.
C3_LaneEqualsScalar ==
    (kpc = "done" /\ max_iterations >= 0) =>
        \A l \in Lanes : _iter[l] = mandelbrot(_ca[l], _cb[l], max_iterations)

\* C9: when the batch loop has ended, a lane with |c| > 2 holds a count
\* strictly below the cap, whatever the other lanes are.  A lane with |c| > 2
\* is seen escaped at step 1, so the statement is taken for caps of at least 2,
\* where an escape below the cap can be observed at all.
C9_EscapingLaneBelowCap ==
    (kpc = "done" /\ max_iterations >= 2) =>
        \A l \in Lanes : NormGt4(_ca[l], _cb[l]) => _iter[l] < max_iterations

\* the first n points z_0 .. z_(n-1) of the orbit of c all have |z|^2 < 4
RECURSIVE StaysInsideFrom(_, _, _, _, _)
StaysInsideFrom(zr, zi, cr, ci, n) ==
    \/ n <= 0
    \/ /\ Lt(Add(Mul(zr, zr), Mul(zi, zi)), Four)
       /\ StaysInsideFrom(Add(Sub(Mul(zr, zr), Mul(zi, zi)), cr),
                          Add(Mul(Two, Mul(zr, zi)), ci), cr, ci, n - 1)
StaysInside(cr, ci, n) == StaysInsideFrom(0, 0, cr, ci, n)

\* C10: when the batch loop has ended, a lane whose point has not escaped
\* within the cap (c = 0 among them) holds exactly max_iterations, and with
\* max_iterations <= 0 every lane holds 0 and no recurrence step was made.
C10_NeverEscapingLaneHitsCap ==
    kpc = "done" =>
        /\ max_iterations >= 0 =>
              \A l \in Lanes :
                  (StaysInside(_ca[l], _cb[l], max_iterations)
                     \/ (_ca[l] = 0 /\ _cb[l] = 0))
                  => _iter[l] = max_iterations
        /\ max_iterations <= 0 =>
              (_iter = Set1(0) /\ k = 0 /\ _zr = ZeroPd /\ _zi = ZeroPd)
\* a batch with c = 0 in one lane and a lane outside the radius-2 disc, run to
\* the largest cap
C10_Witness ==
    /\ kpc = "done" /\ max_iterations = MaxIterArg
    /\ \E l, e \in Lanes :
          /\ _ca[l] = 0 /\ _cb[l] = 0 /\ _iter[l] = max_iterations
          /\ NormGt4(_ca[e], _cb[e])

\* C11: when the batch has been stored, the pixel of a lane whose count equals
\* the cap max_iterations handed to the kernel is black (r = g = b = 0).
C11_CapCountIsBlack ==
    (kpc = "stored" /\ max_iterations >= 0) =>
        \A kk \in Lanes :
            _iter[3 - kk] = max_iterations =>
                pixels[PixelIndex(bi, bj + kk, bytesPerRow, SCREEN_WIDTH)] = Pack(<<0, 0, 0>>)

\* the escape test of a lane as the doubles evaluate it: not (zr^2 + zi^2 < 4)
LaneEscaped(l) ==
    ~Lt(Add(Mul(_zr[l], _zr[l]), Mul(_zi[l], _zi[l])), Four)
AllEscaped == \A l \in Lanes : LaneEscaped(l)

\* C14: a step taken at the loop leaves it if and only if every lane has escaped
\* or the step index has reached max_iterations; a step that leaves changes no
\* register, and a step that stays is one recurrence step with k advanced by 1.
C14_ExitAtFirstAllEscaped ==
    [][kpc = "loop" =>
          /\ (kpc' = "done") <=> (AllEscaped \/ k >= max_iterations)
          /\ kpc' = "done" =>
                (_zr' = _zr /\ _zi' = _zi /\ _iter' = _iter /\ k' = k)
          /\ kpc' # "done" =>
                (kpc' = "loop" /\ k' = k + 1
                   /\ _zr' = AvxNextZr(_zr, _zi, _ca) /\ _zi' = AvxNextZi(_zr, _zi, _cb))]_vars
\* the loop left below the cap with every lane escaped, after at least two
\* steps, one lane having escaped at the first step already
C14_Witness ==
    /\ kpc = "done" /\ k >= 2 /\ k < max_iterations
    /\ AllEscaped
    /\ \E l \in Lanes : NormGt4(_ca[l], _cb[l])

\* ------------------------------------------------------------ MBAVXReal.cpp, mandelbrotAVX
\* the registers are globals of the file; k is the loop index `iter`
\* _mm256_cmpgt_epi64(a, b): a > b per lane
CmpGtEpi64(a, b) == [l \in Lanes |-> a[l] > b[l]]
AndMask(a, b) == [l \in Lanes |-> a[l] /\ b[l]]
\* _mm256_and_si256(_one, m): 1 in the lanes m selects
RealIncrement_Unmasked(m) == Set1(1)
RealIncrement(m) == [l \in Lanes |-> IF m[l] THEN 1 ELSE 0]
\* lines 83-87: (|z|^2 of the squares taken before the update) < 4 and _n < _iter
RealMask(zr2, zi2, iterReg, n) ==
    AndMask(CmpGtEpi64(iterReg, n), CmpLtPd(AddPd(zr2, zi2), Set1(Four)))
\* for (int iter = 0; iter < MAX_ITER; iter++)
RealLoopCond(kk) == kk < MAX_ITER

\* lines 54-68
RealBegin ==
    /\ kpc = "rbegin"
    /\ _iter' = Set1(max_iterations)
    /\ _ca' = BatchCa(bj, SCREEN_WIDTH, bzoom, boffX)
    /\ _cb' = BatchCb(bi, SCREEN_HEIGHT, bzoom, boffY)
    /\ _zr' = ZeroPd
    /\ _zi' = ZeroPd
    /\ _n' = ZeroSi
    /\ k' = 0
    /\ kpc' = "rloop"
    /\ UNCHANGED <<prvars, cfgvars, texvars, mainvars, thrvars, max_iterations, bi, bj, bzoom, boffX, boffY, _mask2>>

\* lines 70-93: one pass of the loop; z is advanced in every lane, the count
\* only in the lanes of _mask2, and the pass ends the loop when _mask2 is zero
RealPass ==
    /\ kpc = "rloop"
    /\ RealLoopCond(k)
    /\ LET zr2 == MulPd(_zr, _zr)
           zi2 == MulPd(_zi, _zi)
           a == AddPd(SubPd(zr2, zi2), _ca)
           b == FmaddPd(Set1(Two), MulPd(_zr, _zi), _cb)
           m == RealMask(zr2, zi2, _iter, _n)
       IN  /\ _zr' = a
           /\ _zi' = b
           /\ _mask2' = m
           /\ _n' = AddEpi64(_n, RealIncrement(m))
           /\ IF TestZ(m) THEN kpc' = "rwrite" /\ k' = k
                          ELSE kpc' = "rloop" /\ k' = k + 1
    /\ UNCHANGED <<prvars, cfgvars, texvars, mainvars, thrvars, max_iterations, bi, bj, bzoom, boffX, boffY,
                   _ca, _cb, _iter>>

\* line 70: the loop index has reached MAX_ITER
RealCap ==
    /\ kpc = "rloop"
    /\ ~RealLoopCond(k)
    /\ kpc' = "rwrite"
    /\ UNCHANGED <<prvars, cfgvars, texvars, mainvars, thrvars, max_iterations, bi, bj, bzoom, boffX, boffY,
                   _ca, _cb, _zr, _zi, _iter, _n, _mask2, k>>

\* lines 95-103, then the two for loops of lines 51-52 step on
RealWrite ==
    /\ kpc = "rwrite"
    /\ LET base == bi * (bytesPerRow \div 4) + bj
       IN  pixels' = [pixels EXCEPT ![base + 0] = Pack(getColor(_n[3])),
                                    ![base + 1] = Pack(getColor(_n[2])),
                                    ![base + 2] = Pack(getColor(_n[1])),
                                    ![base + 3] = Pack(getColor(_n[0]))]
    /\ IF bj + 4 < SCREEN_WIDTH
       THEN bj' = bj + 4 /\ bi' = bi /\ kpc' = "rbegin"
       ELSE /\ bj' = 0
            /\ bi' = bi + 1
            /\ kpc' = IF bi + 1 < SCREEN_HEIGHT THEN "rbegin" ELSE "returned"
    /\ UNCHANGED <<prvars, cfgvars, mainvars, thrvars, bytesPerRow, max_iterations, bzoom, boffX, boffY,
                   _ca, _cb, _zr, _zi, _iter, _n, _mask2, k>>

InitReal ==
    /\ InitCfg
    /\ THREAD_COUNT = 1
    /\ max_iterations \in (0 - 1) .. MaxIterArg
    /\ bzoom \in Zooms /\ boffX \in Offsets /\ boffY \in Offsets
    /\ bi = 0 /\ bj = 0
    /\ kpc = "rbegin"
    /\ _ca = ZeroPd /\ _cb = ZeroPd /\ _zr = ZeroPd /\ _zi = ZeroPd
    /\ _iter = ZeroSi /\ _n = ZeroSi /\ _mask2 = NoMask /\ k = 0
    /\ bytesPerRow \in Pitches(SCREEN_WIDTH)
    /\ pixels = StaleBuffer(SCREEN_HEIGHT, bytesPerRow)
    /\ MainIdle
    /\ PrinterIdle

NextReal == RealBegin \/ RealPass \/ RealCap \/ RealWrite
SpecReal == InitReal /\ [][NextReal]_vars

\* C4: in a pass of the loop that follows an earlier pass of the same batch,
\* a lane whose bit of _mask2 is clear keeps it clear and keeps its count _n.
C4_FlagMonotonic ==
    [][(kpc = "rloop" /\ k >= 1 /\ kpc' \in {"rloop", "rwrite"}) =>
          \A l \in Lanes : ~_mask2[l] => (~_mask2'[l] /\ _n'[l] = _n[l])]_vars
\* a lane that escaped two passes ago with the cap not reached: the last pass
\* advanced its z with its flag clear
C4_Witness ==
    /\ kpc = "rloop" /\ k >= 3
    /\ \E l \in Lanes :
          /\ ~_mask2[l] /\ _n[l] + 2 <= k /\ _n[l] < max_iterations
          /\ \/ ~IsFinite(_zr[l]) \/ ~IsFinite(_zi[l])
             \/ _zr[l] * _zr[l] + _zi[l] * _zi[l] > 4 * Unit * Unit

\* C12: the pixel stored at column bj + kk of row bi holds the colour of the count
\* of the lane whose coordinate was computed from column bj + kk of that row.
C12_PixelFromOwnColumn ==
    [][kpc = "rwrite" =>
          \A kk \in Lanes : \A l \in Lanes :
              (/\ _ca[l] = MapRe(bj + kk, SCREEN_WIDTH, bzoom, boffX)
               /\ _cb[l] = MapIm(bi, SCREEN_HEIGHT, bzoom, boffY))
              => pixels'[PixelIndex(bi, bj + kk, bytesPerRow, SCREEN_WIDTH)]
                     = Pack(getColor(_n[l]))]_vars

\* ------------------------------------------------------------ MandelbrotSDL2.cpp, mandelbrotAVX
\* the registers are globals of the file, zero before main; max_iterations is
\* the parameter `iterations`
\* getColor of this file: uint8_t t = iter / MAX_ITER is an integer, so the
\* sines are taken at whole turns
getColor_SDL2(iter) ==
    IF iter = MAX_ITER THEN <<0, 0, 0>>
    ELSE <<Channel(0, 0), Channel(0, 1), Channel(0, 2)>>
\* _mm256_movemask_pd(m) > 0: some lane of the mask is set
MoveMaskPos(m) == \E l \in Lanes : m[l]

\* lines 69-70: the two for loops admit the batch at row bi, column bj
SdlFor ==
    /\ kpc = "sbatch"
    /\ bi < SCREEN_HEIGHT /\ bj < SCREEN_WIDTH
    /\ kpc' = "srepeat"
    /\ UNCHANGED <<prvars, cfgvars, texvars, mainvars, thrvars, max_iterations, bi, bj, bzoom, boffX, boffY,
                   _ca, _cb, _zr, _zi, _iter, _n, _mask2, k>>

\* lines 72-148: from the label repeat to the goto; z is set to zero and
\* advanced once, _n is neither declared nor set here
SdlRepeat ==
    /\ kpc = "srepeat"
    /\ LET ca == BatchCa(bj, SCREEN_WIDTH, bzoom, boffX)
           cb == BatchCb(bi, SCREEN_HEIGHT, bzoom, boffY)
           zr2 == MulPd(ZeroPd, ZeroPd)
           zi2 == MulPd(ZeroPd, ZeroPd)
           a == AddPd(SubPd(zr2, zi2), ca)
           b == FmaddPd(MulPd(ZeroPd, ZeroPd), Set1(Two), cb)
           m == AndMask(CmpGtEpi64(Set1(max_iterations), _n),
                        CmpLtPd(AddPd(zr2, zi2), Set1(Four)))
       IN  /\ _iter' = Set1(max_iterations)
           /\ _ca' = ca
           /\ _cb' = cb
           /\ _zr' = a
           /\ _zi' = b
           /\ _mask2' = m
           /\ _n' = AddEpi64(_n, RealIncrement(m))
           /\ kpc' = IF MoveMaskPos(m) THEN "srepeat" ELSE "swrite"
    /\ UNCHANGED <<prvars, cfgvars, texvars, mainvars, thrvars, max_iterations, bi, bj, bzoom, boffX, boffY, k>>

\* lines 152-161, then the for loops step on
SdlWrite ==
    /\ kpc = "swrite"
    /\ LET base == bi * (bytesPerRow \div 4) + bj
       IN  pixels' = [pixels EXCEPT ![base + 0] = Pack(getColor_SDL2(_n[3])),
                                    ![base + 1] = Pack(getColor_SDL2(_n[2])),
                                    ![base + 2] = Pack(getColor_SDL2(_n[1])),
                                    ![base + 3] = Pack(getColor_SDL2(_n[0]))]
    /\ IF bj + 4 < SCREEN_WIDTH
       THEN bj' = bj + 4 /\ bi' = bi /\ kpc' = "sbatch"
       ELSE /\ bj' = 0
            /\ bi' = bi + 1
            /\ kpc' = IF bi + 1 < SCREEN_HEIGHT THEN "sbatch" ELSE "sreturned"
    /\ UNCHANGED <<prvars, cfgvars, mainvars, thrvars, bytesPerRow, max_iterations, bzoom, boffX, boffY,
                   _ca, _cb, _zr, _zi, _iter, _n, _mask2, k>>

\* line 280 in the next turn of the main loop: mandelbrotAVX is called again
SdlCallAgain ==
    /\ kpc = "sreturned"
    /\ bi' = 0 /\ bj' = 0
    /\ kpc' = "sbatch"
    /\ UNCHANGED <<prvars, cfgvars, texvars, mainvars, thrvars, max_iterations, bzoom, boffX, boffY,
                   _ca, _cb, _zr, _zi, _iter, _n, _mask2, k>>

InitSdl ==
    /\ InitCfg
    /\ THREAD_COUNT = 1
    /\ max_iterations \in (0 - 1) .. MaxIterArg
    /\ bzoom \in Zooms /\ boffX \in Offsets /\ boffY \in Offsets
    /\ bi = 0 /\ bj = 0
    /\ kpc = "sbatch"
    /\ _ca = ZeroPd /\ _cb = ZeroPd /\ _zr = ZeroPd /\ _zi = ZeroPd
    /\ _iter = ZeroSi /\ _n = ZeroSi /\ _mask2 = NoMask /\ k = 0
    /\ bytesPerRow \in Pitches(SCREEN_WIDTH)
    /\ pixels = StaleBuffer(SCREEN_HEIGHT, bytesPerRow)
    /\ MainIdle
    /\ PrinterIdle

NextSdl == SdlFor \/ SdlRepeat \/ SdlWrite \/ SdlCallAgain
SpecSdl == InitSdl /\ [][NextSdl]_vars

\* C13: every batch evaluation starts with the counter _n at 0 in each lane,
\* whatever batches or calls came before it.
C13_BatchStartsAtZero == kpc = "sbatch" => _n = ZeroSi

\* ------------------------------------------------------------ MBThreadsAndAVX.cpp, one worker
\* the loop of lines 79-92 run to its end: the register _iter it leaves
RECURSIVE AvxLoop(_, _, _, _, _, _, _)
AvxLoop(zr, zi, iter, kk, ca, cb, maxit) ==
    IF AvxLoopCond(kk, maxit) /\ ~TestZ(AvxMask(zr, zi))
    THEN AvxLoop(AvxNextZr(zr, zi, ca), AvxNextZi(zr, zi, cb),
                 AvxNextIter(iter, AvxMask(zr, zi)), kk + 1, ca, cb, maxit)
    ELSE iter
\* lines 68-92 for the batch at row i, column j
AvxBatch(i, j, width, height, zm, offX, offY, maxit) ==
    AvxLoop(ZeroPd, ZeroPd, Set1(0), 0,
            BatchCa(j, width, zm, offX), BatchCb(i, height, zm, offY), maxit)

\* ------------------------------------------------------------ mandelbrotThreads
RowsPerThread(height, count) == height \div count
StartY_SkipRow(t, height, count) ==
    IF t = 0 THEN 0 ELSE t * RowsPerThread(height, count) + 1
\* int startY = i * rows_per_thread
StartY(t, height, count) == t * RowsPerThread(height, count)
EndY_NoRemainder(t, height, count) == (t + 1) * RowsPerThread(height, count)
\* int endY = (i == THREAD_COUNT - 1) ? SCREEN_HEIGHT : (i + 1) * rows_per_thread
EndY(t, height, count) ==
    IF t = count - 1 THEN height ELSE (t + 1) * RowsPerThread(height, count)
JoinReady_NoWait(th) == TRUE
\* thread.join() returns once the thread's function has returned
JoinReady(th) == th.finished
View == <<offsetX, offsetY, zoom>>

\* a worker runs as long as the process does
Alive(p) == p \notin {"idle", "exit", "terminated"}

\* line 110: the arguments are copied into the new thread
SpawnThread ==
    /\ pc = "spawn"
    /\ LET t == Len(threads)
       IN  threads' = Append(threads,
              [startY |-> StartY(t, SCREEN_HEIGHT, THREAD_COUNT),
               endY |-> EndY(t, SCREEN_HEIGHT, THREAD_COUNT),
               offsetX |-> offsetX, offsetY |-> offsetY, zoom |-> zoom,
               max_iterations |-> MAX_ITER, bytesPerRow |-> bytesPerRow,
               i |-> StartY(t, SCREEN_HEIGHT, THREAD_COUNT), j |-> 0,
               finished |-> FALSE, joined |-> FALSE])
    /\ pc' = IF Len(threads) + 1 < THREAD_COUNT THEN "spawn" ELSE "join"
    /\ UNCHANGED <<prvars, cfgvars, kvars, texvars, offsetX, offsetY, zoom, quit, events,
                   posted, writes, screen>>

\* line 110: std::thread's constructor throws std::system_error when the thread
\* cannot be started; nothing catches it, so std::terminate ends the process
SpawnFails ==
    /\ pc = "spawn"
    /\ pc' = "terminated"
    /\ UNCHANGED <<prvars, cfgvars, kvars, texvars, offsetX, offsetY, zoom, quit, events,
                   posted, thrvars>>

\* lines 66-99: worker t evaluates one batch and stores its four pixels
WorkerBatch(t) ==
    /\ Alive(pc)
    /\ LET th == threads[t]
       IN  /\ ~th.finished
           /\ th.i < th.endY
           /\ \E iter \in {AvxBatch(th.i, th.j, SCREEN_WIDTH, SCREEN_HEIGHT,
                                     th.zoom, th.offsetX, th.offsetY, th.max_iterations)} :
                 pixels' = WriteBatch(pixels, th.i, th.j, th.bytesPerRow, SCREEN_WIDTH, iter)
           /\ writes' = NoteBatch(writes, th.i, th.j, th.bytesPerRow, SCREEN_WIDTH,
                                  [by |-> t, view |-> <<th.offsetX, th.offsetY, th.zoom>>])
           /\ threads' = [threads EXCEPT
                 ![t].j = IF th.j + 4 < SCREEN_WIDTH THEN th.j + 4 ELSE 0,
                 ![t].i = IF th.j + 4 < SCREEN_WIDTH THEN th.i ELSE th.i + 1]
    /\ UNCHANGED <<prvars, cfgvars, kvars, bytesPerRow, mainvars, screen>>

\* line 66: the row loop of worker t is over and its function returns
WorkerReturn(t) ==
    /\ Alive(pc)
    /\ ~threads[t].finished
    /\ threads[t].i >= threads[t].endY
    /\ threads' = [threads EXCEPT ![t].finished = TRUE]
    /\ UNCHANGED <<prvars, cfgvars, kvars, texvars, mainvars, writes, screen>>

\* lines 113-115: the threads are joined in the order they were created
JoinThread ==
    /\ pc = "join"
    /\ \E t \in 1 .. Len(threads) :
          /\ ~threads[t].joined
          /\ \A u \in 1 .. t - 1 : threads[u].joined
          /\ JoinReady(threads[t])
          /\ threads' = [threads EXCEPT ![t].joined = TRUE]
          /\ pc' = IF t = Len(threads) THEN "unlock" ELSE "join"
    /\ UNCHANGED <<prvars, cfgvars, kvars, texvars, offsetX, offsetY, zoom, quit, events,
                   posted, writes, screen>>

\* ------------------------------------------------------------ main
EventKinds == {"QUIT", "UP", "DOWN", "LEFT", "RIGHT", "PLUS", "MINUS",
               "WHEEL_UP", "WHEEL_DOWN", "OTHER"}
PanStep(zm) == Div(Lit(1, 10), zm)
ZoomFactor == Lit(11, 10)
CanPoll_InFlight(p) == p \in {"poll", "spawn", "join"}
\* the event loop of lines 163-195 runs at the top of a frame only
CanPoll(p) == p = "poll"

\* the window system queues an event
PostEvent ==
    /\ pc \notin {"idle", "exit", "terminated"}
    /\ posted < MaxEvents
    /\ \E e \in EventKinds : events' = Append(events, e)
    /\ posted' = posted + 1
    /\ UNCHANGED <<prvars, cfgvars, kvars, texvars, pc, offsetX, offsetY, zoom, quit, thrvars>>

\* line 161: while (!quit)
LoopTop ==
    /\ pc = "top"
    /\ pc' = IF quit THEN "exit" ELSE "poll"
    /\ UNCHANGED <<prvars, cfgvars, kvars, texvars, offsetX, offsetY, zoom, quit, events,
                   posted, thrvars>>

\* lines 163-194: SDL_PollEvent hands over one event and it is handled
HandleEvent ==
    /\ CanPoll(pc)
    /\ events # <<>>
    /\ LET e == Head(events)
       IN  /\ quit' = (quit \/ e = "QUIT")
           /\ offsetY' = IF e = "UP" THEN Sub(offsetY, PanStep(zoom))
                         ELSE IF e = "DOWN" THEN Add(offsetY, PanStep(zoom))
                         ELSE offsetY
           /\ offsetX' = IF e = "LEFT" THEN Sub(offsetX, PanStep(zoom))
                         ELSE IF e = "RIGHT" THEN Add(offsetX, PanStep(zoom))
                         ELSE offsetX
           /\ zoom' = IF e \in {"PLUS", "WHEEL_UP"} THEN Mul(zoom, ZoomFactor)
                      ELSE IF e \in {"MINUS", "WHEEL_DOWN"} THEN Div(zoom, ZoomFactor)
                      ELSE zoom
    /\ events' = Tail(events)
    /\ UNCHANGED <<prvars, cfgvars, kvars, texvars, pc, posted, thrvars>>

\* line 163: SDL_PollEvent returns 0; line 200: SDL_LockTexture hands out the
\* buffer, whose old content is not kept; mandelbrotThreads is entered
LockTexture ==
    /\ pc = "poll"
    /\ events = <<>>
    /\ pixels' = StaleBuffer(SCREEN_HEIGHT, bytesPerRow)
    /\ writes' = [x \in DOMAIN pixels |-> <<>>]
    /\ threads' = <<>>
    /\ pc' = "spawn"
    /\ UNCHANGED <<prvars, cfgvars, kvars, bytesPerRow, offsetX, offsetY, zoom, quit, events,
                   posted, screen>>

\* line 206: SDL_UnlockTexture after mandelbrotThreads has returned
UnlockTexture ==
    /\ pc = "unlock"
    /\ pc' = "present"
    /\ UNCHANGED <<prvars, cfgvars, kvars, texvars, offsetX, offsetY, zoom, quit, events,
                   posted, thrvars>>

\* lines 209-216: the texture is copied to the renderer and shown
Present ==
    /\ pc = "present"
    /\ screen' = pixels
    /\ pc' = "top"
    /\ UNCHANGED <<prvars, cfgvars, kvars, texvars, offsetX, offsetY, zoom, quit, events,
                   posted, threads, writes>>

KernelIdle ==
    /\ kpc = "idle" /\ max_iterations = 0 /\ bi = 0 /\ bj = 0
    /\ bzoom = 0 /\ boffX = 0 /\ boffY = 0
    /\ _ca = ZeroPd /\ _cb = ZeroPd /\ _zr = ZeroPd /\ _zi = ZeroPd
    /\ _iter = ZeroSi /\ _n = ZeroSi /\ _mask2 = NoMask /\ k = 0

\* lines 151-158 of main, the texture created
InitMain ==
    /\ KernelIdle
    /\ PrinterIdle
    /\ bytesPerRow \in Pitches(SCREEN_WIDTH)
    /\ pixels = StaleBuffer(SCREEN_HEIGHT, bytesPerRow)
    /\ pc = "top"
    /\ quit = FALSE
    /\ events = <<>> /\ posted = 0
    /\ threads = <<>>
    /\ writes = [x \in DOMAIN pixels |-> <<>>]
    /\ screen = pixels

\* the frame loop with its input: a grid of one batch by two rows on a padded
\* texture, two workers
Init ==
    /\ SCREEN_WIDTH = 4 /\ SCREEN_HEIGHT = 2 /\ THREAD_COUNT = 2
    /\ bytesPerRow = 4 * SCREEN_WIDTH + 6
    /\ zoom = Lit(1, 1) /\ offsetX = Lit(0 - 1, 2) /\ offsetY = Lit(0, 1)
    /\ InitMain

NextFrame ==
    \/ LoopTop \/ LockTexture
    \/ SpawnThread \/ SpawnFails
    \/ \E t \in 1 .. Len(threads) : WorkerBatch(t) \/ WorkerReturn(t)
    \/ JoinThread \/ UnlockTexture \/ Present
Next == PostEvent \/ HandleEvent \/ NextFrame
Spec == Init /\ [][Next]_vars

\* the frame loop on every grid and worker count of the bounds, at the top of a
\* frame with a viewport earlier input has left, no further input arriving
InitGrid ==
    /\ InitCfg
    /\ zoom = Lit(1, 1) /\ offsetX \in {Lit(0 - 1, 2), Lit(0, 1)} /\ offsetY = Lit(0, 1)
    /\ InitMain
SpecGrid == InitGrid /\ [][NextFrame]_vars

\* ------------------------------------------------------------ claims on the frame
ThreadIds == 1 .. Len(threads)
Rows == 0 .. SCREEN_HEIGHT - 1
Cols == 0 .. SCREEN_WIDTH - 1
Owns(t, row) == threads[t].startY <= row /\ row < threads[t].endY
FrameDone == pc \in {"unlock", "present"}

\* C1: once mandelbrotThreads has created its THREAD_COUNT workers, their ranges
\* [startY, endY) start at 0, end at SCREEN_HEIGHT, follow one another without gap
\* or overlap, and every row lies in exactly one of them; a range may be empty.
C1_PartitionExact ==
    Len(threads) = THREAD_COUNT =>
        /\ threads[1].startY = 0
        /\ threads[THREAD_COUNT].endY = SCREEN_HEIGHT
        /\ \A t \in ThreadIds : threads[t].startY <= threads[t].endY
        /\ \A t \in 1 .. THREAD_COUNT - 1 : threads[t].endY = threads[t + 1].startY
        /\ \A row \in Rows : Cardinality({t \in ThreadIds : Owns(t, row)}) = 1
\* more workers than rows: a worker with an empty range has returned and has
\* written nothing, and the frame is complete
C1_Witness ==
    /\ pc = "unlock" /\ THREAD_COUNT > SCREEN_HEIGHT
    /\ \E t \in ThreadIds :
          /\ threads[t].startY = threads[t].endY /\ threads[t].finished
          /\ \A x \in DOMAIN writes : \A n \in 1 .. Len(writes[x]) : writes[x][n].by # t

\* C2: no word of the buffer is stored twice in a frame, every store goes to
\* row * (bytesPerRow / 4) + col of a row the storing worker owns, and when the
\* workers are joined every pixel of the grid has been stored exactly once.
C2_WrittenOnceByOwner ==
    /\ \A x \in DOMAIN writes :
          /\ Len(writes[x]) <= 1
          /\ \A n \in 1 .. Len(writes[x]) :
                \E row \in Rows, col \in Cols :
                    /\ x = row * (bytesPerRow \div 4) + col
                    /\ writes[x][n].by \in ThreadIds
                    /\ Owns(writes[x][n].by, row)
    /\ FrameDone =>
          \A row \in Rows, col \in Cols :
              Len(writes[row * (bytesPerRow \div 4) + col]) = 1
\* a joined frame on a padded texture whose rows were stored by different workers
C2_Witness ==
    /\ pc = "unlock" /\ bytesPerRow > 4 * SCREEN_WIDTH /\ SCREEN_WIDTH > 4
    /\ \E x, y \in DOMAIN writes :
          /\ Len(writes[x]) = 1 /\ Len(writes[y]) = 1
          /\ writes[x][1].by # writes[y][1].by

\* the buffer one call mandelbrotAVX(.., startY, endY) leaves, rows and batches
\* taken in the order of its two for loops
RECURSIVE RunRows(_, _, _, _, _, _, _, _, _)
RunRows(buf, i, j, endY, pitch, zm, offX, offY, maxit) ==
    IF i >= endY THEN buf
    ELSE RunRows(WriteBatch(buf, i, j, pitch, SCREEN_WIDTH,
                            AvxBatch(i, j, SCREEN_WIDTH, SCREEN_HEIGHT, zm, offX, offY, maxit)),
                 IF j + 4 < SCREEN_WIDTH THEN i ELSE i + 1,
                 IF j + 4 < SCREEN_WIDTH THEN j + 4 ELSE 0,
                 endY, pitch, zm, offX, offY, maxit)

\* C5: when the workers are joined the buffer is the one a single worker over
\* all rows leaves for the same viewport, whatever THREAD_COUNT is and however
\* the workers were interleaved.
C5_SameForEveryWorkerCount ==
    FrameDone =>
        pixels = RunRows(StaleBuffer(SCREEN_HEIGHT, bytesPerRow), 0, 0, SCREEN_HEIGHT,
                         bytesPerRow, zoom, offsetX, offsetY, MAX_ITER)
\* a joined frame of the largest worker count that holds two different colours
C5_Witness ==
    /\ pc = "unlock" /\ THREAD_COUNT = MaxThreads /\ SCREEN_HEIGHT >= 2
    /\ \E x, y \in DOMAIN pixels :
          pixels[x] # Stale /\ pixels[y] # Stale /\ pixels[x] # pixels[y]

\* C6: the texture is unlocked and presented only when every worker of the
\* frame has been created, has gone through its whole row range, has returned
\* and has been joined.
C6_PresentAfterJoin ==
    FrameDone =>
        /\ Len(threads) = THREAD_COUNT
        /\ \A t \in ThreadIds :
              /\ threads[t].finished /\ threads[t].joined
              /\ threads[t].i >= threads[t].endY
\* a computed frame about to be presented
C6_Witness ==
    /\ pc = "present"
    /\ \A row \in Rows, col \in Cols : pixels[row * (bytesPerRow \div 4) + col] # Stale
    /\ screen # pixels

\* C7: a failed creation of a worker thread leaves the program running (the
\* caller is told of the failure and the frame is dropped).
C7_SpawnFailureSurvived == pc # "terminated"

\* C8: while a frame is in flight every worker holds the viewport main holds,
\* and every pixel stored for the frame was computed with that one viewport.
FramePhases == {"spawn", "join", "unlock", "present"}
C8_OneViewportPerFrame ==
    /\ pc \in FramePhases =>
          /\ \A t \in ThreadIds :
                <<threads[t].offsetX, threads[t].offsetY, threads[t].zoom>> = View
          /\ \A x \in DOMAIN writes : \A n \in 1 .. Len(writes[x]) :
                writes[x][n].view = View
    /\ \A x, y \in DOMAIN writes :
          \A n \in 1 .. Len(writes[x]), m \in 1 .. Len(writes[y]) :
              writes[x][n].view = writes[y][m].view
\* a frame computed with a viewport an earlier input has moved, one worker
\* still at work, and a further viewport input waiting in the queue
C8_Witness ==
    /\ pc = "join"
    /\ View # <<Lit(0 - 1, 2), Lit(0, 1), Lit(1, 1)>>
    /\ events # <<>> /\ Head(events) \in EventKinds \ {"QUIT", "OTHER"}
    /\ \E x \in DOMAIN writes : Len(writes[x]) = 1
    /\ \E t \in ThreadIds : ~threads[t].finished

\* ------------------------------------------------------------ printABCInThreads.cpp, MyPrinter
\* threads are named by their creation index, which stands for their
\* thread::id as well; thread_ids is the vector of the ids pushed so far
PrinterIds == 0 .. thread_count - 1
\* str of length n: its characters are 65, 66, ..
StrOf(n) == [i \in 1 .. n |-> 64 + i]
\* what the built wait loop of waitForAllThreadInit does: thread_ids.size() is
\* read without synchronisation while run() pushes to thread_ids, and the
\* loop has no side effect.  "reload": the size is read from memory on every
\* turn; "hoisted": it is read once and the loop spins on that value;
\* "elided": the loop is assumed to end and returns at once
Builds == {"reload", "hoisted", "elided"}
\* bytes an out-of-range read of str may give
Garbage == {0, 63}

\* int getCurrentThreadID(const thread::id& id)
getCurrentThreadID(id) ==
    IF \E x \in 1 .. Len(thread_ids) : thread_ids[x] = id
    THEN (CHOOSE x \in 1 .. Len(thread_ids) :
              thread_ids[x] = id /\ \A y \in 1 .. x - 1 : thread_ids[y] # id) - 1
    ELSE 0 - 1
\* the values the predicate of line 71 may have for thread t: the element of
\* thread_ids read is compared with the thread's id; an element not pushed
\* yet compares either way
WaitPredicate(t) ==
    IF currently_allowed_thread < Len(thread_ids)
    THEN {thread_ids[currently_allowed_thread + 1] = t}
    ELSE BOOLEAN
\* lines 84-87: the indices str is read at by the first loop of print_chars
FirstReads ==
    IF next_char < Len(str) /\ char_count > 0
    THEN [x \in 1 .. (IF char_count < Len(str) - next_char THEN char_count
                                                         ELSE Len(str) - next_char)
             |-> next_char + x - 1]
    ELSE <<>>
\* lines 88-92: the indices read by the second loop, printCount being the
\* number of characters of the first
WrapReads(printCount) ==
    IF printCount < char_count THEN [x \in 1 .. char_count - printCount |-> x - 1]
    ELSE <<>>
\* str[i] as it is read: one past the end is the terminator, further is anything
CharAt(i, junk) == IF i < Len(str) THEN str[i + 1] ELSE IF i = Len(str) THEN 0 ELSE junk

\* line 49: run() starts the next thread
RunSpawn ==
    /\ rpc = "spawn"
    /\ tpc' = [tpc EXCEPT ![ri] = "gate"]
    /\ rpc' = "register"
    /\ UNCHANGED <<cfgvars, kvars, texvars, mainvars, thrvars,
                   str, char_count, thread_count, thread_ids, currently_allowed_thread,
                   next_char, mtx, cv, ri, gate, out, turn, win>>

\* lines 50-53: its id is pushed to thread_ids; after the last one run() joins
RunRegister ==
    /\ rpc = "register"
    /\ thread_ids' = Append(thread_ids, ri)
    /\ ri' = ri + 1
    /\ rpc' = IF ri + 1 < thread_count THEN "spawn" ELSE "join"
    /\ UNCHANGED <<cfgvars, kvars, texvars, mainvars, thrvars,
                   str, char_count, thread_count, currently_allowed_thread,
                   next_char, mtx, cv, tpc, gate, out, turn, win>>

\* line 68, lines 60-64: waitForAllThreadInit as the build made it
Gate(t) ==
    /\ tpc[t] = "gate"
    /\ gate = "reload" => thread_count = Len(thread_ids)
    /\ tpc' = [tpc EXCEPT ![t] = IF gate = "hoisted" /\ thread_count # Len(thread_ids)
                                 THEN "spin" ELSE "sleep"]
    /\ UNCHANGED <<cfgvars, kvars, texvars, mainvars, thrvars,
                   str, char_count, thread_count, thread_ids, currently_allowed_thread,
                   next_char, mtx, cv, rpc, ri, gate, out, turn, win>>

\* line 69: sleep_for ends
Sleep(t) ==
    /\ tpc[t] = "sleep"
    /\ tpc' = [tpc EXCEPT ![t] = "lock"]
    /\ UNCHANGED <<cfgvars, kvars, texvars, mainvars, thrvars,
                   str, char_count, thread_count, thread_ids, currently_allowed_thread,
                   next_char, mtx, cv, rpc, ri, gate, out, turn, win>>

\* line 70, and the lock taken again inside cv.wait after a wake-up
Lock(t) ==
    /\ tpc[t] = "lock"
    /\ mtx = Free
    /\ mtx' = t
    /\ tpc' = [tpc EXCEPT ![t] = "wait"]
    /\ UNCHANGED <<cfgvars, kvars, texvars, mainvars, thrvars,
                   str, char_count, thread_count, thread_ids, currently_allowed_thread,
                   next_char, cv, rpc, ri, gate, out, turn, win>>

\* line 71: cv.wait tests the predicate with the lock held and either
\* returns or releases the lock and waits
WaitCheck(t) ==
    /\ tpc[t] = "wait"
    /\ \E ok \in WaitPredicate(t) :
          IF ok THEN /\ tpc' = [tpc EXCEPT ![t] = "print"]
                     /\ UNCHANGED <<mtx, cv>>
                ELSE /\ tpc' = [tpc EXCEPT ![t] = "blocked"]
                     /\ mtx' = Free
                     /\ cv' = cv \cup {t}
    /\ UNCHANGED <<cfgvars, kvars, texvars, mainvars, thrvars,
                   str, char_count, thread_count, thread_ids, currently_allowed_thread,
                   next_char, rpc, ri, gate, out, turn, win>>

\* a waiting thread wakes without a notification
SpuriousWake(t) ==
    /\ t \in cv
    /\ cv' = cv \ {t}
    /\ tpc' = [tpc EXCEPT ![t] = "lock"]
    /\ UNCHANGED <<cfgvars, kvars, texvars, mainvars, thrvars,
                   str, char_count, thread_count, thread_ids, currently_allowed_thread,
                   next_char, mtx, rpc, ri, gate, out, turn, win>>

\* line 72, lines 81-95: print_chars
PrintChars(t) ==
    /\ tpc[t] = "print"
    /\ next_char + char_count <= MaxNextChar
    /\ LET reads == FirstReads \o WrapReads(Len(FirstReads))
       IN  \E junk \in Garbage :
              out' = [thread |-> t, by |-> getCurrentThreadID(t), turn |-> turn,
                      registered |-> Len(thread_ids), entry |-> next_char, win |-> win,
                      reads |-> reads,
                      chars |-> [x \in 1 .. Len(reads) |-> CharAt(reads[x], junk)]]
    /\ next_char' = next_char + char_count
    /\ turn' = (turn + 1) % thread_count
    /\ win' = (win + char_count) % Len(str)
    /\ tpc' = [tpc EXCEPT ![t] = "advance"]
    /\ UNCHANGED <<cfgvars, kvars, texvars, mainvars, thrvars,
                   str, char_count, thread_count, thread_ids, currently_allowed_thread,
                   mtx, cv, rpc, ri, gate>>

\* lines 73-76: the turn passes on, next_char is reduced once, the lock is released
Advance(t) ==
    /\ tpc[t] = "advance"
    /\ currently_allowed_thread' =
          IF currently_allowed_thread + 1 = thread_count THEN 0
          ELSE currently_allowed_thread + 1
    /\ next_char' = IF next_char >= Len(str) THEN next_char - Len(str) ELSE next_char
    /\ mtx' = Free
    /\ tpc' = [tpc EXCEPT ![t] = "notify"]
    /\ UNCHANGED <<cfgvars, kvars, texvars, mainvars, thrvars,
                   str, char_count, thread_count, thread_ids, cv, rpc, ri, gate, out, turn, win>>

\* line 77: cv.notify_all wakes every waiting thread; line 67: next turn of the loop
Notify(t) ==
    /\ tpc[t] = "notify"
    /\ cv' = {}
    /\ tpc' = [x \in DOMAIN tpc |-> IF x = t THEN "gate"
                                    ELSE IF x \in cv THEN "lock" ELSE tpc[x]]
    /\ UNCHANGED <<cfgvars, kvars, texvars, mainvars, thrvars,
                   str, char_count, thread_count, thread_ids, currently_allowed_thread,
                   next_char, mtx, rpc, ri, gate, out, turn, win>>

\* MyPrinter p(str, char_count, thread_count) constructed (lines 29-36), p.run() entered
InitPrint ==
    /\ SCREEN_WIDTH = 0 /\ SCREEN_HEIGHT = 0 /\ THREAD_COUNT = 0
    /\ bytesPerRow = 0 /\ pixels = <<>>
    /\ kpc = "idle" /\ max_iterations = 0 /\ bi = 0 /\ bj = 0
    /\ bzoom = 0 /\ boffX = 0 /\ boffY = 0
    /\ _ca = ZeroPd /\ _cb = ZeroPd /\ _zr = ZeroPd /\ _zi = ZeroPd
    /\ _iter = ZeroSi /\ _n = ZeroSi /\ _mask2 = NoMask /\ k = 0
    /\ pc = "idle" /\ offsetX = 0 /\ offsetY = 0 /\ zoom = 0 /\ quit = FALSE
    /\ events = <<>> /\ posted = 0 /\ threads = <<>> /\ writes = <<>> /\ screen = <<>>
    /\ str \in {StrOf(n) : n \in 1 .. MaxStrLen}
    /\ char_count \in 1 .. MaxCharCount
    /\ thread_count \in 1 .. MaxPrinters
    /\ thread_ids = <<>>
    /\ currently_allowed_thread = 0 /\ next_char = 0
    /\ mtx = Free /\ cv = {}
    /\ rpc = "spawn" /\ ri = 0
    /\ tpc = [t \in PrinterIds |-> "unborn"]
    /\ gate \in Builds
    /\ out = NoOutput /\ turn = 0 /\ win = 0

ThreadStep(t) ==
    \/ Gate(t) \/ Sleep(t) \/ Lock(t) \/ WaitCheck(t)
    \/ PrintChars(t) \/ Advance(t) \/ Notify(t)
NextPrint ==
    \/ RunSpawn \/ RunRegister
    \/ \E t \in PrinterIds : ThreadStep(t) \/ SpuriousWake(t)
SpecPrint == InitPrint /\ [][NextPrint]_vars

\* the protocol under fair scheduling: run() keeps running, and a thread that
\* can take a step again and again (the mutex is free again and again for a
\* thread at its lock) eventually takes it; a wake-up without notification
\* may happen but is never owed
FairPrint ==
    /\ WF_vars(RunSpawn \/ RunRegister)
    /\ \A t \in 0 .. MaxPrinters - 1 : SF_vars(t \in PrinterIds /\ ThreadStep(t))
\* char_count within the length of str, where next_char stays below MaxNextChar
InitPrintFair == InitPrint /\ char_count <= Len(str)
SpecPrintFair == InitPrintFair /\ [][NextPrint]_vars /\ FairPrint

C16_CyclicWindows ==
    gate = "reload" =>
        /\ \A t \in PrinterIds :
              tpc[t] = "print" => (0 <= next_char /\ next_char < Len(str))
        /\ out # NoOutput =>
              /\ \A x \in 1 .. Len(out.reads) : out.reads[x] < Len(str)
              /\ out.chars = [x \in 1 .. char_count |->
                                 str[((out.win + x - 1) % Len(str)) + 1]]

====
